---- MODULE Spec2Model ----
(***************************************************************************)
(* Permission policy, admin classifier and the two stores of the           *)
(* community bot: PermissionManager (config/permissions.json),             *)
(* ConfigManager (database row or config/servers/<id>.json) and            *)
(* PermissionChecker on top of them.                                       *)
(***************************************************************************)
EXTENDS Integers, Sequences, FiniteSets, TLC

VARIABLES
  permFile,     \* config/permissions.json: [exists, configs: serverId -> PermissionConfig]
  dbAvailable,  \* !!process.env.DATABASE_URL
  dbRows,       \* table server_configs: server_id -> row
  cfgFiles,     \* config/servers/<serverId>.json: serverId -> ServerConfig
  nOps,         \* number of administration operations run so far
  last,         \* the last operation, its arguments and what it returned
  inFlight      \* calls of PermissionManager awaiting their reads and writes

vars == <<permFile, dbAvailable, dbRows, cfgFiles, nOps, last, inFlight>>

----------------------------------------------------------------------------
(* Bounds and input sets *)

MaxOps == 2
MaxFaults == 1

Tenants == {"T1", "T2"}
Roles == {"R1", "R2"}
Users == {"U1", "U2"}
Names == {"mod"}

Range(s) == {s[i] : i \in 1..Len(s)}

\* I/O calls that can fail while one handler runs
PermFaults == {"permRead", "permWrite"}
CfgFaults == {"dbRead", "dbWrite", "cfgRead"}

\* which of the calls in S fail during one handler
Failing(S) == {f \in SUBSET S : Cardinality(f) <= MaxFaults}

----------------------------------------------------------------------------
(* PermissionManager *)

getAllPermissions ==
  <<"use_bot", "run_analysis", "quick_analyze", "consult",
    "manage_config", "manage_permissions", "view_help">>

Catalog == Range(getAllPermissions)

createDefaultPermissionConfig ==
  [rolePermissions |-> <<>>,
   userPermissions |-> <<>>,
   defaultPermissions |-> <<"view_help">>,
   adminOnlyPermissions |-> <<"manage_config", "manage_permissions">>]

\* the permission lists the administration operations are called with
PermInputs ==
  {<<"view_help">>, <<"use_bot", "run_analysis">>, <<"consult", "manage_config">>}

\* fs.readFile + JSON.parse: ENOENT reads as {}, any other error is thrown
loadPermissionConfigs(file, faults) ==
  IF "permRead" \in faults THEN [ok |-> FALSE, configs |-> <<>>]
  ELSE IF ~file.exists THEN [ok |-> TRUE, configs |-> <<>>]
  ELSE [ok |-> TRUE, configs |-> file.configs]

\* a save that keeps the role bindings the file holds and the map does not
savePermissionConfigsMerge(file, configs, faults) ==
  LET Kept(t) ==
        SelectSeq(file.configs[t].rolePermissions,
                  LAMBDA rp : \A i \in 1..Len(configs[t].rolePermissions) :
                                configs[t].rolePermissions[i].roleId # rp.roleId)
  IN IF "permWrite" \in faults THEN [ok |-> FALSE, file |-> file]
     ELSE [ok |-> TRUE,
           file |-> [exists |-> TRUE,
                     configs |-> [t \in (DOMAIN configs) \cup (DOMAIN file.configs) |->
                        IF t \notin DOMAIN configs THEN file.configs[t]
                        ELSE IF t \notin DOMAIN file.configs THEN configs[t]
                        ELSE [configs[t] EXCEPT !.rolePermissions = @ \o Kept(t)]]]]

\* a save that logs the error of fs.writeFile and returns
savePermissionConfigsSilent(file, configs, faults) ==
  IF "permWrite" \in faults THEN [ok |-> TRUE, file |-> file]
  ELSE [ok |-> TRUE, file |-> [exists |-> TRUE, configs |-> configs]]

\* mkdir + JSON.stringify + fs.writeFile of the whole map
savePermissionConfigs(file, configs, faults) ==
  IF "permWrite" \in faults THEN [ok |-> FALSE, file |-> file]
  ELSE [ok |-> TRUE, file |-> [exists |-> TRUE, configs |-> configs]]

\* allConfigs[serverId] = config
PutConfig(configs, serverId, config) ==
  [t \in (DOMAIN configs) \cup {serverId} |->
     IF t = serverId THEN config ELSE configs[t]]

\* allConfigs[serverId] || this.createDefaultPermissionConfig()
ConfigOrDefault(configs, serverId) ==
  IF serverId \in DOMAIN configs THEN configs[serverId]
  ELSE createDefaultPermissionConfig

\* a failed read answered with a policy without permissions
getPermissionConfigEmpty(file, serverId, faults) ==
  LET loaded == loadPermissionConfigs(file, faults) IN
  IF ~loaded.ok
  THEN [config |-> [createDefaultPermissionConfig EXCEPT !.defaultPermissions = <<>>],
        file |-> file, read |-> FALSE]
  ELSE IF serverId \notin DOMAIN loaded.configs
  THEN LET saved == savePermissionConfigs(file,
                      PutConfig(loaded.configs, serverId, createDefaultPermissionConfig),
                      faults)
       IN [config |-> createDefaultPermissionConfig, file |-> saved.file, read |-> saved.ok]
  ELSE [config |-> loaded.configs[serverId], file |-> file, read |-> TRUE]

getPermissionConfig(file, serverId, faults) ==
  LET loaded == loadPermissionConfigs(file, faults) IN
  IF ~loaded.ok
  THEN [config |-> createDefaultPermissionConfig, file |-> file, read |-> FALSE]
  ELSE IF serverId \notin DOMAIN loaded.configs
  THEN LET saved == savePermissionConfigs(file,
                      PutConfig(loaded.configs, serverId, createDefaultPermissionConfig),
                      faults)
       IN [config |-> createDefaultPermissionConfig, file |-> saved.file, read |-> saved.ok]
  ELSE [config |-> loaded.configs[serverId], file |-> file, read |-> TRUE]

\* Array.prototype.findIndex, 0 standing for -1
findIndex(seq, Test(_)) ==
  IF \E i \in 1..Len(seq) : Test(seq[i])
  THEN CHOOSE i \in 1..Len(seq) : Test(seq[i]) /\ \A j \in 1..(i - 1) : ~Test(seq[j])
  ELSE 0

\* the binding pushed without looking for an existing one
upsertRoleAlwaysPush(config, roleId, roleName, permissions) ==
  [config EXCEPT !.rolePermissions =
     Append(@, [roleId |-> roleId, roleName |-> roleName,
                permissions |-> permissions, enabled |-> TRUE])]

\* an existing binding extended instead of replaced
upsertRoleMerge(config, roleId, roleName, permissions) ==
  LET HasRole(rp) == rp.roleId = roleId
      existingIndex == findIndex(config.rolePermissions, HasRole)
  IN IF existingIndex >= 1
     THEN [config EXCEPT
             !.rolePermissions[existingIndex].roleName = roleName,
             !.rolePermissions[existingIndex].permissions = @ \o permissions]
     ELSE [config EXCEPT !.rolePermissions =
             Append(@, [roleId |-> roleId, roleName |-> roleName,
                        permissions |-> permissions, enabled |-> TRUE])]

\* the binding replaced and every other role binding switched on
upsertRoleEnableAll(config, roleId, roleName, permissions) ==
  LET HasRole(rp) == rp.roleId = roleId
      binding == [roleId |-> roleId, roleName |-> roleName,
                  permissions |-> permissions, enabled |-> TRUE]
      others == SelectSeq(config.rolePermissions, LAMBDA rp : ~HasRole(rp))
  IN [config EXCEPT !.rolePermissions =
        [i \in 1..Len(others) |-> [others[i] EXCEPT !.enabled = TRUE]] \o <<binding>>]

\* the update of config.rolePermissions in setRolePermissions
upsertRole(config, roleId, roleName, permissions) ==
  LET HasRole(rp) == rp.roleId = roleId
      existingIndex == findIndex(config.rolePermissions, HasRole)
      binding == [roleId |-> roleId, roleName |-> roleName,
                  permissions |-> permissions, enabled |-> TRUE]
  IN IF existingIndex >= 1
     THEN [config EXCEPT !.rolePermissions[existingIndex] = binding]
     ELSE [config EXCEPT !.rolePermissions = Append(@, binding)]

\* the update of config.userPermissions in setUserPermissions
upsertUser(config, userId, username, permissions, isCustom) ==
  LET HasUser(up) == up.userId = userId
      existingIndex == findIndex(config.userPermissions, HasUser)
      binding == [userId |-> userId, username |-> username,
                  permissions |-> permissions, enabled |-> TRUE,
                  isCustom |-> isCustom]
  IN IF existingIndex >= 1
     THEN [config EXCEPT !.userPermissions[existingIndex] = binding]
     ELSE [config EXCEPT !.userPermissions = Append(@, binding)]

\* the binding of the role switched off and left in the list
filterOutRoleDisable(config, roleId) ==
  [config EXCEPT !.rolePermissions =
     [i \in 1..Len(@) |-> IF @[i].roleId = roleId
                           THEN [@[i] EXCEPT !.enabled = FALSE] ELSE @[i]]]

filterOutRole(config, roleId) ==
  LET Keep(rp) == rp.roleId # roleId
  IN [config EXCEPT !.rolePermissions = SelectSeq(@, Keep)]

\* every user binding dropped with the one of the user
filterOutUserAll(config, userId) ==
  [config EXCEPT !.userPermissions = <<>>]

filterOutUser(config, userId) ==
  LET Keep(up) == up.userId # userId
  IN [config EXCEPT !.userPermissions = SelectSeq(@, Keep)]

\* the list written to adminOnlyPermissions as well
replaceDefaultAdminOnly(config, permissions) ==
  [config EXCEPT !.defaultPermissions = permissions,
                 !.adminOnlyPermissions = permissions]

replaceDefault(config, permissions) ==
  [config EXCEPT !.defaultPermissions = permissions]

\* load all, change the server's entry, save all; an error of either is rethrown
loadMutateSave(file, serverId, Mutate(_), faults) ==
  LET loaded == loadPermissionConfigs(file, faults) IN
  IF ~loaded.ok THEN [ok |-> FALSE, file |-> file]
  ELSE savePermissionConfigs(file,
         PutConfig(loaded.configs, serverId,
                   Mutate(ConfigOrDefault(loaded.configs, serverId))),
         faults)

setRolePermissions(file, serverId, roleId, roleName, permissions, faults) ==
  LET Mutate(config) == upsertRole(config, roleId, roleName, permissions)
  IN loadMutateSave(file, serverId, Mutate, faults)

setUserPermissions(file, serverId, userId, username, permissions, isCustom, faults) ==
  LET Mutate(config) == upsertUser(config, userId, username, permissions, isCustom)
  IN loadMutateSave(file, serverId, Mutate, faults)

removeRolePermissions(file, serverId, roleId, faults) ==
  LET Mutate(config) == filterOutRole(config, roleId)
  IN loadMutateSave(file, serverId, Mutate, faults)

removeUserPermissions(file, serverId, userId, faults) ==
  LET Mutate(config) == filterOutUser(config, userId)
  IN loadMutateSave(file, serverId, Mutate, faults)

setDefaultPermissions(file, serverId, permissions, faults) ==
  LET Mutate(config) == replaceDefault(config, permissions)
  IN loadMutateSave(file, serverId, Mutate, faults)

----------------------------------------------------------------------------
(* ConfigManager: database first, server file as fallback *)

\* of ServerConfig: the fields validateConfig tests, adminRoles and permissions
createDefaultConfig(serverId) ==
  [serverId |-> serverId,
   aiProvider |-> "claude",
   analyzedChannelsIsArray |-> TRUE,
   settingsIsObject |-> TRUE,
   adminRoles |-> <<>>,
   permissions |-> createDefaultPermissionConfig]

\* a validation that looks at serverId only
validateConfigLenient(config) ==
  config.serverId # ""

validateConfig(config) ==
  /\ config.serverId # ""
  /\ config.analyzedChannelsIsArray
  /\ config.aiProvider \in {"chatgpt", "gemini", "claude"}
  /\ config.settingsIsObject

\* SELECT ... WHERE server_id = $1; a query error is caught and gives null
loadConfigFromDatabase(rows, serverId, faults) ==
  IF "dbRead" \in faults \/ serverId \notin DOMAIN rows
  THEN [found |-> FALSE, config |-> createDefaultConfig(serverId)]
  ELSE LET row == rows[serverId] IN
       [found |-> TRUE,
        config |-> [serverId |-> row.server_id,
                    aiProvider |-> IF row.ai_provider = "" THEN "claude"
                                   ELSE row.ai_provider,
                    analyzedChannelsIsArray |-> TRUE,
                    settingsIsObject |-> TRUE,
                    adminRoles |-> row.admin_roles,
                    permissions |-> createDefaultPermissionConfig]]

\* INSERT ... ON CONFLICT (server_id) DO UPDATE; a query error is rethrown
saveConfigToDatabase(rows, config, faults) ==
  IF "dbWrite" \in faults THEN [ok |-> FALSE, rows |-> rows]
  ELSE [ok |-> TRUE,
        rows |-> [t \in (DOMAIN rows) \cup {config.serverId} |->
                    IF t = config.serverId
                    THEN [server_id |-> config.serverId,
                          ai_provider |-> config.aiProvider,
                          admin_roles |-> config.adminRoles]
                    ELSE rows[t]]]

loadServerConfig(avail, rows, files, serverId, faults) ==
  LET fromDb == IF avail THEN loadConfigFromDatabase(rows, serverId, faults)
                ELSE [found |-> FALSE, config |-> createDefaultConfig(serverId)]
      failed == [ok |-> FALSE, config |-> createDefaultConfig(serverId), rows |-> rows]
  IN
  IF fromDb.found THEN [ok |-> TRUE, config |-> fromDb.config, rows |-> rows]
  ELSE IF "cfgRead" \in faults THEN failed
  ELSE IF serverId \notin DOMAIN files
  THEN \* ENOENT: default config, saved to the database if available
       IF avail
       THEN LET saved == saveConfigToDatabase(rows, createDefaultConfig(serverId), faults)
            IN IF saved.ok
               THEN [ok |-> TRUE, config |-> createDefaultConfig(serverId),
                     rows |-> saved.rows]
               ELSE failed
       ELSE [ok |-> TRUE, config |-> createDefaultConfig(serverId), rows |-> rows]
  ELSE IF ~validateConfig(files[serverId]) THEN failed
  ELSE IF avail
  THEN LET saved == saveConfigToDatabase(rows, files[serverId], faults)
       IN IF saved.ok
          THEN [ok |-> TRUE, config |-> files[serverId], rows |-> saved.rows]
          ELSE failed
  ELSE [ok |-> TRUE, config |-> files[serverId], rows |-> rows]

\* fs.writeFile of config/servers/<serverId>.json
writeConfigFile(files, config) ==
  [t \in (DOMAIN files) \cup {config.serverId} |->
     IF t = config.serverId THEN config ELSE files[t]]

\* a save that turns to the file when the database refuses it
saveServerConfigFallThrough(avail, rows, files, config, faults) ==
  LET saved == saveConfigToDatabase(rows, config, faults) IN
  IF avail /\ saved.ok THEN [ok |-> TRUE, rows |-> saved.rows, files |-> files]
  ELSE IF "cfgWrite" \in faults THEN [ok |-> FALSE, rows |-> rows, files |-> files]
  ELSE [ok |-> TRUE, rows |-> rows, files |-> writeConfigFile(files, config)]

\* the database if available, else the file; an error of either is rethrown
saveServerConfig(avail, rows, files, config, faults) ==
  IF avail
  THEN LET saved == saveConfigToDatabase(rows, config, faults)
       IN [ok |-> saved.ok, rows |-> saved.rows, files |-> files]
  ELSE IF "cfgWrite" \in faults THEN [ok |-> FALSE, rows |-> rows, files |-> files]
  ELSE [ok |-> TRUE, rows |-> rows, files |-> writeConfigFile(files, config)]

setAIProvider(avail, rows, files, serverId, provider, faults) ==
  LET loaded == loadServerConfig(avail, rows, files, serverId, faults) IN
  IF ~loaded.ok THEN [ok |-> FALSE, rows |-> rows, files |-> files]
  ELSE saveServerConfig(avail, loaded.rows, files,
                        [loaded.config EXCEPT !.aiProvider = provider], faults)

----------------------------------------------------------------------------
(* PermissionChecker and the resolution of effective permissions *)

\* a GuildMember: id, guild (id, ownerId), role ids, Discord permission flags
Member(id, guildId, ownerId, roles, flags) ==
  [id |-> id, guild |-> [id |-> guildId, ownerId |-> ownerId],
   roles |-> roles, permissions |-> flags]

\* isAdmin without the comparison with guild.ownerId
isAdminNoOwner(member, avail, rows, files, faults) ==
  IF "Administrator" \in member.permissions THEN [result |-> TRUE, rows |-> rows]
  ELSE IF "ManageGuild" \in member.permissions THEN [result |-> TRUE, rows |-> rows]
  ELSE LET loaded == loadServerConfig(avail, rows, files, member.guild.id, faults) IN
       IF ~loaded.ok THEN [result |-> FALSE, rows |-> rows]
       ELSE [result |-> \E i \in 1..Len(loaded.config.adminRoles) :
                          loaded.config.adminRoles[i] \in member.roles,
             rows |-> loaded.rows]

isAdmin(member, avail, rows, files, faults) ==
  IF "Administrator" \in member.permissions THEN [result |-> TRUE, rows |-> rows]
  ELSE IF "ManageGuild" \in member.permissions THEN [result |-> TRUE, rows |-> rows]
  ELSE IF member.guild.ownerId = member.id THEN [result |-> TRUE, rows |-> rows]
  ELSE LET loaded == loadServerConfig(avail, rows, files, member.guild.id, faults) IN
       IF ~loaded.ok THEN [result |-> FALSE, rows |-> rows]
       ELSE [result |-> /\ Len(loaded.config.adminRoles) > 0
                        /\ \E i \in 1..Len(loaded.config.adminRoles) :
                             loaded.config.adminRoles[i] \in member.roles,
             rows |-> loaded.rows]

\* default and role permissions as the code collects them
RoleBase(config, member) ==
  Range(config.defaultPermissions) \cup
    UNION {Range(config.rolePermissions[i].permissions) :
             i \in {j \in 1..Len(config.rolePermissions) :
                      /\ config.rolePermissions[j].enabled
                      /\ config.rolePermissions[j].roleId \in member.roles}}

UserIndex(config, member) ==
  LET Mine(up) == up.userId = member.id /\ up.enabled
  IN findIndex(config.userPermissions, Mine)

\* a custom binding added to the collected permissions instead of replacing them
effectivePermissionsNoClear(config, member) ==
  LET idx == UserIndex(config, member) IN
  IF idx = 0 THEN RoleBase(config, member)
  ELSE RoleBase(config, member) \cup Range(config.userPermissions[idx].permissions)

\* every user binding replacing the collected permissions
effectivePermissionsAlwaysClear(config, member) ==
  LET idx == UserIndex(config, member) IN
  IF idx = 0 THEN RoleBase(config, member)
  ELSE Range(config.userPermissions[idx].permissions)

\* the role filter without the test of the member's roles
effectivePermissionsAnyRole(config, member) ==
  LET idx == UserIndex(config, member)
      base == Range(config.defaultPermissions) \cup
                UNION {Range(config.rolePermissions[i].permissions) :
                         i \in {j \in 1..Len(config.rolePermissions) :
                                  config.rolePermissions[j].enabled}}
  IN IF idx = 0 THEN base
     ELSE IF config.userPermissions[idx].isCustom
     THEN Range(config.userPermissions[idx].permissions)
     ELSE base \cup Range(config.userPermissions[idx].permissions)

\* each matching role binding overwriting the one before it
effectivePermissionsLastRole(config, member) ==
  LET idx == UserIndex(config, member)
      matching == {j \in 1..Len(config.rolePermissions) :
                     /\ config.rolePermissions[j].enabled
                     /\ config.rolePermissions[j].roleId \in member.roles}
      lastRole == CHOOSE j \in matching : \A k \in matching : k <= j
      base == Range(config.defaultPermissions) \cup
                (IF matching = {} THEN {}
                 ELSE Range(config.rolePermissions[lastRole].permissions))
  IN IF idx = 0 THEN base
     ELSE IF config.userPermissions[idx].isCustom
     THEN Range(config.userPermissions[idx].permissions)
     ELSE base \cup Range(config.userPermissions[idx].permissions)

\* the role filter and the user find without the test of enabled
effectivePermissionsIgnoreEnabled(config, member) ==
  LET base == Range(config.defaultPermissions) \cup
                UNION {Range(config.rolePermissions[i].permissions) :
                         i \in {j \in 1..Len(config.rolePermissions) :
                                  config.rolePermissions[j].roleId \in member.roles}}
      Mine(up) == up.userId = member.id
      idx == findIndex(config.userPermissions, Mine)
  IN IF idx = 0 THEN base
     ELSE IF config.userPermissions[idx].isCustom
     THEN Range(config.userPermissions[idx].permissions)
     ELSE base \cup Range(config.userPermissions[idx].permissions)

\* steps 1 to 3 of getUserEffectivePermissions on a loaded config; the result is
\* the content of the Set the code fills
effectivePermissions(config, member) ==
  LET base == Range(config.defaultPermissions) \cup
                UNION {Range(config.rolePermissions[i].permissions) :
                         i \in {j \in 1..Len(config.rolePermissions) :
                                  /\ config.rolePermissions[j].enabled
                                  /\ config.rolePermissions[j].roleId \in member.roles}}
      Mine(up) == up.userId = member.id /\ up.enabled
      idx == findIndex(config.userPermissions, Mine)
  IN IF idx = 0 THEN base
     ELSE IF config.userPermissions[idx].isCustom
     THEN Range(config.userPermissions[idx].permissions)
     ELSE base \cup Range(config.userPermissions[idx].permissions)

getUserEffectivePermissions(file, serverId, member, faults) ==
  LET got == getPermissionConfig(file, serverId, faults) IN
  [permissions |-> effectivePermissions(got.config, member),
   config |-> got.config, file |-> got.file]

\* hasPermission without the test of adminOnlyPermissions
hasPermissionNoAdminOnly(file, avail, rows, files, serverId, member, permission, faults) ==
  LET eff == getUserEffectivePermissions(file, serverId, member, faults) IN
  [result |-> permission \in eff.permissions, config |-> eff.config,
   file |-> eff.file, rows |-> rows]

hasPermission(file, avail, rows, files, serverId, member, permission, faults) ==
  LET got == getPermissionConfig(file, serverId, faults) IN
  IF permission \in Range(got.config.adminOnlyPermissions)
  THEN LET adm == isAdmin(member, avail, rows, files, faults) IN
       [result |-> adm.result, config |-> got.config, file |-> got.file, rows |-> adm.rows]
  ELSE LET eff == getUserEffectivePermissions(got.file, serverId, member, faults) IN
       [result |-> permission \in eff.permissions, config |-> got.config,
        file |-> eff.file, rows |-> rows]

\* hasSpecificPermission without the admin check in front
hasSpecificPermissionNoAdmin(file, avail, rows, files, member, permission, faults) ==
  LET has == hasPermission(file, avail, rows, files, member.guild.id,
                           member, permission, faults)
  IN [result |-> has.result, file |-> has.file, rows |-> has.rows]

hasSpecificPermission(file, avail, rows, files, member, permission, faults) ==
  LET adm == isAdmin(member, avail, rows, files, faults) IN
  IF adm.result
  THEN [result |-> TRUE, file |-> file, rows |-> adm.rows]
  ELSE LET has == hasPermission(file, avail, adm.rows, files, member.guild.id,
                                member, permission, faults)
       IN [result |-> has.result, file |-> has.file, rows |-> has.rows]

\* canUseBot, canManageConfig, canRunAnalysis, canConsult, canQuickAnalyze,
\* canManagePermissions, canViewHelp: the same body, each with its permission
CanPermission ==
  [canUseBot |-> "use_bot", canManageConfig |-> "manage_config",
   canRunAnalysis |-> "run_analysis", canConsult |-> "consult",
   canQuickAnalyze |-> "quick_analyze", canManagePermissions |-> "manage_permissions",
   canViewHelp |-> "view_help"]

can(file, avail, rows, files, member, wrapper, faults) ==
  LET adm == isAdmin(member, avail, rows, files, faults) IN
  IF adm.result
  THEN [result |-> TRUE, file |-> file, rows |-> adm.rows]
  ELSE LET has == hasPermission(file, avail, adm.rows, files, member.guild.id,
                                member, CanPermission[wrapper], faults)
       IN [result |-> has.result, file |-> has.file, rows |-> has.rows]

----------------------------------------------------------------------------
(* The /config command *)

\* the permissions option of a subcommand, as the pieces split(',') gives
PermissionStrings ==
  {<<"use_bot", " run_analysis">>, <<"consult", "manage_config">>,
   <<"view_help", "bogus">>, <<"bogus">>}

\* String.prototype.trim on the pieces above
trim(p) == IF p = " run_analysis" THEN "run_analysis" ELSE p

\* the pieces trimmed and not compared with getAllPermissions
parsePermissionsNoFilter(permissionString) ==
  [i \in 1..Len(permissionString) |-> trim(permissionString[i])]

parsePermissions(permissionString) ==
  LET validPermissions == getAllPermissions
      Valid(p) == p \in Range(validPermissions)
  IN SelectSeq([i \in 1..Len(permissionString) |-> trim(permissionString[i])], Valid)

\* what a subcommand answers and leaves in the stores
Replied(reply, file, rows, files) ==
  [reply |-> reply, file |-> file, rows |-> rows, files |-> files]

Outcome(ok) == IF ok THEN "done" ELSE "failed"

\* the set case; an error of ConfigManager is caught in execute and answered
handleAICommands(file, avail, rows, files, serverId, cmd, faults) ==
  LET out == setAIProvider(avail, rows, files, serverId, cmd.provider, faults)
  IN Replied(Outcome(out.ok), file, out.rows, out.files)

\* an error of PermissionManager is caught in execute and answered
handlePermissionCommands(file, rows, files, serverId, cmd, faults) ==
  CASE cmd.sub = "view" ->
         Replied("done", getPermissionConfig(file, serverId, faults).file, rows, files)
    [] cmd.sub = "role-add" ->
         LET rolePerms == parsePermissions(cmd.permissions)
             out == setRolePermissions(file, serverId, cmd.role, "mod", rolePerms, faults)
         IN IF Len(rolePerms) = 0 THEN Replied("invalid", file, rows, files)
            ELSE Replied(Outcome(out.ok), out.file, rows, files)
    [] cmd.sub = "role-remove" ->
         LET out == removeRolePermissions(file, serverId, cmd.role, faults)
         IN Replied(Outcome(out.ok), out.file, rows, files)
    [] cmd.sub = "user-add" ->
         LET userPerms == parsePermissions(cmd.permissions)
             out == setUserPermissions(file, serverId, cmd.user, "mod", userPerms,
                                       cmd.custom, faults)
         IN IF Len(userPerms) = 0 THEN Replied("invalid", file, rows, files)
            ELSE Replied(Outcome(out.ok), out.file, rows, files)
    [] cmd.sub = "user-remove" ->
         LET out == removeUserPermissions(file, serverId, cmd.user, faults)
         IN Replied(Outcome(out.ok), out.file, rows, files)
    [] cmd.sub = "default" ->
         LET defaultPerms == parsePermissions(cmd.permissions)
             out == setDefaultPermissions(file, serverId, defaultPerms, faults)
         IN IF Len(defaultPerms) = 0 THEN Replied("invalid", file, rows, files)
            ELSE Replied(Outcome(out.ok), out.file, rows, files)

\* configCommand.execute for a member of a guild
execute(file, avail, rows, files, member, cmd, faults) ==
  LET gate == can(file, avail, rows, files, member, "canManageConfig", faults) IN
  IF ~gate.result
  THEN [allowed |-> FALSE] @@ Replied("denied", gate.file, gate.rows, files)
  ELSE [allowed |-> TRUE] @@
         (IF cmd.group = "ai"
          THEN handleAICommands(gate.file, avail, gate.rows, files,
                                member.guild.id, cmd, faults)
          ELSE handlePermissionCommands(gate.file, gate.rows, files,
                                        member.guild.id, cmd, faults))

----------------------------------------------------------------------------
(* Administration operations as steps of the program *)

NoFile == [exists |-> FALSE, configs |-> <<>>]

Admin(op, out) ==
  /\ nOps < MaxOps
  /\ nOps' = nOps + 1
  /\ permFile' = out.file
  /\ last' = [op EXCEPT !.ok = out.ok, !.before = permFile]
  /\ UNCHANGED <<dbAvailable, dbRows, cfgFiles, inFlight>>

SetRolePermissions ==
  \E t \in Tenants, r \in Roles, n \in Names, ps \in PermInputs, f \in Failing(PermFaults) :
    Admin([op |-> "setRolePermissions", serverId |-> t, roleId |-> r,
           roleName |-> n, permissions |-> ps, ok |-> TRUE, before |-> NoFile],
          setRolePermissions(permFile, t, r, n, ps, f))

SetUserPermissions ==
  \E t \in Tenants, u \in Users, n \in Names, ps \in PermInputs,
     c \in BOOLEAN, f \in Failing(PermFaults) :
    Admin([op |-> "setUserPermissions", serverId |-> t, userId |-> u,
           username |-> n, permissions |-> ps, isCustom |-> c, ok |-> TRUE, before |-> NoFile],
          setUserPermissions(permFile, t, u, n, ps, c, f))

RemoveRolePermissions ==
  \E t \in Tenants, r \in Roles, f \in Failing(PermFaults) :
    Admin([op |-> "removeRolePermissions", serverId |-> t, roleId |-> r, ok |-> TRUE, before |-> NoFile],
          removeRolePermissions(permFile, t, r, f))

RemoveUserPermissions ==
  \E t \in Tenants, u \in Users, f \in Failing(PermFaults) :
    Admin([op |-> "removeUserPermissions", serverId |-> t, userId |-> u, ok |-> TRUE, before |-> NoFile],
          removeUserPermissions(permFile, t, u, f))

SetDefaultPermissions ==
  \E t \in Tenants, ps \in PermInputs, f \in Failing(PermFaults) :
    Admin([op |-> "setDefaultPermissions", serverId |-> t,
           permissions |-> ps, ok |-> TRUE, before |-> NoFile],
          setDefaultPermissions(permFile, t, ps, f))

\* /config permissions view
GetPermissionConfig ==
  \E t \in Tenants, f \in Failing(PermFaults) :
    LET got == getPermissionConfig(permFile, t, f) IN
    /\ permFile' = got.file
    /\ last' = [op |-> "getPermissionConfig", serverId |-> t, config |-> got.config]
    /\ UNCHANGED <<dbAvailable, dbRows, cfgFiles, nOps, inFlight>>

\* a permissions.json edited by hand: bindings of T1 switched off
EditedFile ==
  [exists |-> TRUE,
   configs |-> [t \in {"T1"} |->
     [createDefaultPermissionConfig EXCEPT
        !.rolePermissions =
          <<[roleId |-> "R1", roleName |-> "mod",
             permissions |-> <<"quick_analyze">>, enabled |-> FALSE]>>,
        !.userPermissions =
          <<[userId |-> "U1", username |-> "mod",
             permissions |-> <<"quick_analyze">>, enabled |-> FALSE,
             isCustom |-> TRUE]>>]]]

Init ==
  /\ permFile \in {NoFile, EditedFile}
  /\ dbAvailable \in BOOLEAN
  /\ dbRows = <<>>
  /\ cfgFiles = <<>>
  /\ nOps = 0
  /\ last = [op |-> "none"]
  /\ inFlight = <<>>

Next ==
  \/ SetRolePermissions
  \/ SetUserPermissions
  \/ RemoveRolePermissions
  \/ RemoveUserPermissions
  \/ SetDefaultPermissions
  \/ GetPermissionConfig

Spec == Init /\ [][Next]_vars

----------------------------------------------------------------------------
(* Authorization checks on stored policies and configs *)

MemberFlags == {{}, {"Administrator"}, {"ManageGuild"}}

Members ==
  {Member(u, t, o, rs, fl) :
     u \in Users, t \in {"T1"}, o \in Users, rs \in SUBSET Roles, fl \in MemberFlags}

RoleBinding(r, ps, en) ==
  [roleId |-> r, roleName |-> "mod", permissions |-> ps, enabled |-> en]

UserBinding(u, ps, en, c) ==
  [userId |-> u, username |-> "mod", permissions |-> ps, enabled |-> en, isCustom |-> c]

StoredRoleLists ==
  {<<>>,
   <<RoleBinding("R1", <<"use_bot", "run_analysis">>, TRUE)>>,
   <<RoleBinding("R1", <<"consult", "manage_config">>, FALSE)>>,
   <<RoleBinding("R2", <<"quick_analyze", "manage_config">>, TRUE),
     RoleBinding("R1", <<"use_bot">>, TRUE)>>}

StoredUserLists ==
  {<<>>,
   <<UserBinding("U1", <<"consult">>, TRUE, FALSE)>>,
   <<UserBinding("U1", <<"consult">>, TRUE, TRUE)>>,
   <<UserBinding("U1", <<"consult">>, FALSE, TRUE)>>,
   <<UserBinding("U2", <<"manage_permissions", "quick_analyze">>, TRUE, TRUE),
     UserBinding("U1", <<"consult", "use_bot">>, FALSE, FALSE)>>}

\* default and admin-only lists; the second and third as edited in the file
StoredLists ==
  {[d |-> <<"view_help">>, ao |-> <<"manage_config", "manage_permissions">>],
   [d |-> <<"view_help", "use_bot", "manage_config">>,
    ao |-> <<"manage_config", "manage_permissions">>],
   [d |-> <<"view_help", "consult">>,
    ao |-> <<"manage_config", "manage_permissions", "consult">>]}

StoredPolicies ==
  {[rolePermissions |-> rl, userPermissions |-> ul,
    defaultPermissions |-> l.d, adminOnlyPermissions |-> l.ao] :
     rl \in StoredRoleLists, ul \in StoredUserLists, l \in StoredLists}

ValidFile(t) == [createDefaultConfig(t) EXCEPT !.adminRoles = <<"R2">>]
MalformedFile(t) ==
  [createDefaultConfig(t) EXCEPT !.adminRoles = <<"R1">>, !.aiProvider = "bard"]
Row(t, adminRoles) ==
  [server_id |-> t, ai_provider |-> "claude", admin_roles |-> adminRoles]

\* database rows and server files of guild t, as <<rows, files>>
StoredConfigs(t, avail) ==
  LET One(v) == [k \in {t} |-> v] IN
  IF avail
  THEN {<< <<>>, <<>> >>,
        << <<>>, One(ValidFile(t)) >>,
        << <<>>, One(MalformedFile(t)) >>,
        << One(Row(t, <<>>)), One(ValidFile(t)) >>,
        << One(Row(t, <<"R1">>)), <<>> >>}
  ELSE {<< <<>>, <<>> >>,
        << <<>>, One(ValidFile(t)) >>,
        << <<>>, One(MalformedFile(t)) >>}

OneKey(t, S) == {<<>>} \cup {[k \in {t} |-> v] : v \in S}

Check(rec, file, rows) ==
  /\ last' = rec
  /\ permFile' = file
  /\ dbRows' = rows
  /\ UNCHANGED <<dbAvailable, cfgFiles, nOps, inFlight>>

\* the adminRoles of the record the store holds for the guild
ConfiguredAdminRoles(t) ==
  IF dbAvailable /\ t \in DOMAIN dbRows THEN Range(dbRows[t].admin_roles)
  ELSE IF t \in DOMAIN cfgFiles THEN Range(cfgFiles[t].adminRoles)
  ELSE {}

\* what a check is called with and on: the member, whether permissions.json can
\* be read, whether isAdmin classifies the member as admin, and the policy
\* getPermissionConfig hands to the check
Called(op, m, f) ==
  [op |-> op, member |-> m, policyRead |-> "permRead" \notin f,
   admin |-> isAdmin(m, dbAvailable, dbRows, cfgFiles, f \cap CfgFaults).result,
   config |-> getPermissionConfig(permFile, m.guild.id, f \cap PermFaults).config]

IsAdmin ==
  /\ last.op = "none"
  /\ \E m \in Members, f \in Failing(CfgFaults) :
       LET adm == isAdmin(m, dbAvailable, dbRows, cfgFiles, f)
           loaded == loadServerConfig(dbAvailable, dbRows, cfgFiles, m.guild.id, f)
       IN Check([op |-> "isAdmin", member |-> m, result |-> adm.result,
                 loadOk |-> loaded.ok,
                 adminRoles |-> Range(loaded.config.adminRoles),
                 configured |-> ConfiguredAdminRoles(m.guild.id)],
                permFile, adm.rows)

GetUserEffectivePermissions ==
  /\ last.op = "none"
  /\ \E m \in Members, f \in Failing(PermFaults) :
       LET eff == getUserEffectivePermissions(permFile, m.guild.id, m, f) IN
       Check(Called("getUserEffectivePermissions", m, f) @@
               [permissions |-> eff.permissions],
             eff.file, dbRows)

HasPermission ==
  /\ last.op = "none"
  /\ \E m \in Members, p \in Catalog, f \in Failing(PermFaults \cup CfgFaults) :
       LET has == hasPermission(permFile, dbAvailable, dbRows, cfgFiles,
                                m.guild.id, m, p, f)
       IN Check(Called("hasPermission", m, f) @@ [permission |-> p, result |-> has.result],
                has.file, has.rows)

HasSpecificPermission ==
  /\ last.op = "none"
  /\ \E m \in Members, p \in Catalog, f \in Failing(PermFaults \cup CfgFaults) :
       LET has == hasSpecificPermission(permFile, dbAvailable, dbRows, cfgFiles,
                                        m, p, f)
       IN Check(Called("hasSpecificPermission", m, f) @@ [permission |-> p, result |-> has.result],
                has.file, has.rows)

Can ==
  /\ last.op = "none"
  /\ \E m \in Members, w \in DOMAIN CanPermission,
        f \in Failing(PermFaults \cup CfgFaults) :
       LET has == can(permFile, dbAvailable, dbRows, cfgFiles, m, w, f)
       IN Check(Called(w, m, f) @@ [permission |-> CanPermission[w], result |-> has.result],
                has.file, has.rows)

InitAuth ==
  /\ permFile \in {NoFile} \cup
       {[exists |-> TRUE, configs |-> cs] :
          cs \in OneKey("T1", StoredPolicies) \cup
                 OneKey("T2", {createDefaultPermissionConfig})}
  /\ dbAvailable \in BOOLEAN
  /\ \E sc \in StoredConfigs("T1", dbAvailable) :
       dbRows = sc[1] /\ cfgFiles = sc[2]
  /\ nOps = 0
  /\ last = [op |-> "none"]
  /\ inFlight = <<>>

NextAuth ==
  \/ IsAdmin
  \/ GetUserEffectivePermissions
  \/ HasPermission
  \/ HasSpecificPermission
  \/ Can

SpecAuth == InitAuth /\ [][NextAuth]_vars

----------------------------------------------------------------------------
(* /config commands of members of guild T1 *)

\* the owner, a member with role R1, one with role R2, one with ManageGuild and
\* one with neither role nor flag
Invokers ==
  {Member("U1", "T1", "U1", {}, {}),
   Member("U2", "T1", "U1", {"R1"}, {}),
   Member("U2", "T1", "U1", {"R2"}, {}),
   Member("U2", "T1", "U1", {}, {"ManageGuild"}),
   Member("U2", "T1", "U1", {}, {})}

CmdFaults == Failing(PermFaults \cup CfgFaults \cup {"cfgWrite"})

Command(m, cmd, f) ==
  \E out \in {execute(permFile, dbAvailable, dbRows, cfgFiles, m, cmd, f)} :
  /\ permFile' = out.file
  /\ dbRows' = out.rows
  /\ cfgFiles' = out.files
  /\ last' = [op |-> "config", member |-> m, cmd |-> cmd, faults |-> f,
              admin |-> isAdmin(m, dbAvailable, dbRows, cfgFiles, f \cap CfgFaults).result,
              allowed |-> out.allowed, reply |-> out.reply,
              before |-> [file |-> permFile, rows |-> dbRows, files |-> cfgFiles]]
  /\ UNCHANGED <<dbAvailable, nOps, inFlight>>

\* the subcommands of /config permissions and their options
PermissionCommands ==
  {[group |-> "permissions", sub |-> "view"]} \cup
  {[group |-> "permissions", sub |-> "role-add", role |-> r, permissions |-> ps] :
     r \in Roles, ps \in PermissionStrings} \cup
  {[group |-> "permissions", sub |-> "role-remove", role |-> r] : r \in Roles} \cup
  {[group |-> "permissions", sub |-> "user-add", user |-> u, permissions |-> ps,
    custom |-> c] : u \in Users, ps \in PermissionStrings, c \in BOOLEAN} \cup
  {[group |-> "permissions", sub |-> "user-remove", user |-> u] : u \in Users} \cup
  {[group |-> "permissions", sub |-> "default", permissions |-> ps] :
     ps \in PermissionStrings}

\* /config ai set
AICommands ==
  {[group |-> "ai", sub |-> "set", provider |-> pr] : pr \in {"chatgpt", "gemini"}}

Permissions ==
  /\ last.op = "none"
  /\ \E m \in Invokers, cmd \in PermissionCommands, f \in CmdFaults : Command(m, cmd, f)

Ai ==
  /\ last.op = "none"
  /\ \E m \in Invokers, cmd \in AICommands, f \in CmdFaults : Command(m, cmd, f)

\* permissions.json as commands have left it: role R1 of T1 with use_bot
SeededFile ==
  [exists |-> TRUE,
   configs |-> [t \in {"T1"} |->
     [createDefaultPermissionConfig EXCEPT
        !.rolePermissions = <<RoleBinding("R1", <<"use_bot">>, TRUE)>>]]]

\* and as role-add R1 consult,manage_config and user-add U2 manage_permissions
\* custom have left it
GrantedFile ==
  [exists |-> TRUE,
   configs |-> [t \in {"T1"} |->
     [createDefaultPermissionConfig EXCEPT
        !.rolePermissions = <<RoleBinding("R1", <<"consult", "manage_config">>, TRUE)>>,
        !.userPermissions = <<UserBinding("U2", <<"manage_permissions">>, TRUE, TRUE)>>]]]

InitCmd ==
  /\ permFile \in {NoFile, SeededFile, GrantedFile}
  /\ dbAvailable \in BOOLEAN
  /\ \E sc \in StoredConfigs("T1", dbAvailable) :
       dbRows = sc[1] /\ cfgFiles = sc[2]
  /\ nOps = 0
  /\ last = [op |-> "none"]
  /\ inFlight = <<>>

NextCmd ==
  \/ Permissions
  \/ Ai

SpecCmd == InitCmd /\ [][NextCmd]_vars

----------------------------------------------------------------------------
(* Loads and saves of ConfigManager and loads of PermissionManager *)

\* a server file with a policy of its own in permissions
PolicyFile(t) ==
  [createDefaultConfig(t) EXCEPT
     !.adminRoles = <<"R2">>,
     !.permissions = [createDefaultPermissionConfig EXCEPT
                        !.defaultPermissions = <<"view_help", "use_bot">>]]

\* database rows and server files of guild t, as <<rows, files>>
StoreConfigs(t, avail) ==
  LET One(v) == [k \in {t} |-> v] IN
  {<< <<>>, <<>> >>,
   << <<>>, One(ValidFile(t)) >>,
   << <<>>, One(PolicyFile(t)) >>,
   << <<>>, One(MalformedFile(t)) >>} \cup
  (IF avail
   THEN {<< One(Row(t, <<>>)), One(ValidFile(t)) >>,
         << One(Row(t, <<"R1">>)), <<>> >>}
   ELSE {})

\* the configs saveServerConfig is called with
SaveInputs ==
  {[createDefaultConfig(t) EXCEPT !.aiProvider = "gemini", !.adminRoles = ar] :
     t \in Tenants, ar \in {<<>>, <<"R1">>}}

\* single failures, and the database failing on reads and writes alike
StoreFaults == Failing(CfgFaults) \cup {{"dbRead", "dbWrite"}}

\* what is kept of the operation before the last one
Earlier(l) ==
  IF l.op = "none" THEN l
  ELSE [op |-> l.op, serverId |-> l.serverId, faults |-> l.faults, ok |-> l.ok,
        config |-> l.config, fresh |-> l.fresh]

Stored(op, t, f, ok, config, fresh) ==
  [op |-> op, serverId |-> t, faults |-> f, ok |-> ok, config |-> config,
   fresh |-> fresh,
   before |-> [file |-> permFile, rows |-> dbRows, files |-> cfgFiles],
   earlier |-> Earlier(last)]

LoadServerConfig ==
  /\ nOps < MaxOps
  /\ \E t \in Tenants, f \in StoreFaults :
       LET loaded == loadServerConfig(dbAvailable, dbRows, cfgFiles, t, f) IN
       /\ dbRows' = loaded.rows
       /\ last' = Stored("loadServerConfig", t, f, loaded.ok, loaded.config,
                         t \notin DOMAIN dbRows /\ t \notin DOMAIN cfgFiles)
  /\ nOps' = nOps + 1
  /\ UNCHANGED <<permFile, dbAvailable, cfgFiles, inFlight>>

SaveServerConfig ==
  /\ nOps < MaxOps
  /\ \E config \in SaveInputs, f \in Failing({"dbWrite", "cfgWrite"}) :
       LET saved == saveServerConfig(dbAvailable, dbRows, cfgFiles, config, f) IN
       /\ dbRows' = saved.rows
       /\ cfgFiles' = saved.files
       /\ last' = Stored("saveServerConfig", config.serverId, f, saved.ok, config, FALSE)
  /\ nOps' = nOps + 1
  /\ UNCHANGED <<permFile, dbAvailable, inFlight>>

LoadPermissionConfig ==
  /\ nOps < MaxOps
  /\ \E t \in Tenants, f \in Failing(PermFaults) :
       LET got == getPermissionConfig(permFile, t, f) IN
       /\ permFile' = got.file
       /\ last' = Stored("getPermissionConfig", t, f, TRUE, got.config,
                         t \notin DOMAIN permFile.configs)
  /\ nOps' = nOps + 1
  /\ UNCHANGED <<dbAvailable, dbRows, cfgFiles, inFlight>>

InitStore ==
  /\ permFile \in {NoFile, SeededFile}
  /\ dbAvailable \in BOOLEAN
  /\ \E sc \in StoreConfigs("T1", dbAvailable) :
       dbRows = sc[1] /\ cfgFiles = sc[2]
  /\ nOps = 0
  /\ last = [op |-> "none"]
  /\ inFlight = <<>>

NextStore ==
  \/ LoadServerConfig
  \/ SaveServerConfig
  \/ LoadPermissionConfig

SpecStore == InitStore /\ [][NextStore]_vars

----------------------------------------------------------------------------
(* Calls of PermissionManager that overlap: each call reads permissions.json
   at its first await and writes it at its second *)

\* the calls that overlap: setRolePermissions and getPermissionConfig
RaceOps ==
  {[op |-> "setRolePermissions", serverId |-> t, roleId |-> r, roleName |-> "mod",
    permissions |-> <<"use_bot">>] : t \in Tenants, r \in Roles} \cup
  {[op |-> "getPermissionConfig", serverId |-> t] : t \in Tenants}

\* the map a call writes: its snapshot with the entry of its server changed
Changed(call) ==
  PutConfig(call.loaded, call.op.serverId,
            IF call.op.op = "getPermissionConfig" THEN createDefaultPermissionConfig
            ELSE upsertRole(ConfigOrDefault(call.loaded, call.op.serverId),
                            call.op.roleId, call.op.roleName, call.op.permissions))

\* a call starts and its await of loadPermissionConfigs resolves; it returns at
\* once when the read fails, and getPermissionConfig when the map holds the server
AwaitLoad ==
  /\ nOps < MaxOps
  /\ \E op \in RaceOps, f \in Failing(PermFaults) :
       LET loaded == loadPermissionConfigs(permFile, f)
           returns == \/ ~loaded.ok
                      \/ /\ op.op = "getPermissionConfig"
                         /\ op.serverId \in DOMAIN loaded.configs
       IN /\ inFlight' = Append(inFlight,
               [op |-> op, faults |-> f,
                pc |-> IF returns THEN "returned" ELSE "loaded",
                loaded |-> loaded.configs, ok |-> loaded.ok, missed |-> {}])
          /\ last' = [op |-> "load", call |-> nOps + 1, ok |-> loaded.ok,
                      before |-> permFile]
  /\ nOps' = nOps + 1
  /\ UNCHANGED <<permFile, dbAvailable, dbRows, cfgFiles>>

\* the await of savePermissionConfigs of a call resolves: the map of the call
\* is written; the calls still between their read and their write have not seen it
AwaitSave ==
  \E i \in 1..Len(inFlight) :
    /\ inFlight[i].pc = "loaded"
    /\ \E out \in {savePermissionConfigs(permFile, Changed(inFlight[i]),
                                          inFlight[i].faults)} :
         /\ permFile' = out.file
         /\ inFlight' =
              [j \in 1..Len(inFlight) |->
                 IF j = i THEN [inFlight[j] EXCEPT !.pc = "returned", !.ok = out.ok]
                 ELSE IF out.ok /\ inFlight[j].pc = "loaded"
                 THEN [inFlight[j] EXCEPT !.missed = @ \cup {i}]
                 ELSE inFlight[j]]
         /\ last' = [op |-> "save", call |-> i, ok |-> out.ok, before |-> permFile]
    /\ UNCHANGED <<nOps, dbAvailable, dbRows, cfgFiles>>

InitRace ==
  /\ permFile \in {NoFile, SeededFile}
  /\ dbAvailable = FALSE
  /\ dbRows = <<>>
  /\ cfgFiles = <<>>
  /\ nOps = 0
  /\ last = [op |-> "none"]
  /\ inFlight = <<>>

NextRace ==
  \/ AwaitLoad
  \/ AwaitSave

SpecRace == InitRace /\ [][NextRace]_vars

----------------------------------------------------------------------------
(* Properties of the authorization checks *)

CheckerOps == {"hasSpecificPermission"} \cup DOMAIN CanPermission

Elevated(m) ==
  \/ "Administrator" \in m.permissions
  \/ "ManageGuild" \in m.permissions
  \/ m.guild.ownerId = m.id

\* default permissions and the permissions of the enabled bindings of the
\* member's roles
BaseOf(config, m) ==
  {p \in Catalog :
     \/ p \in Range(config.defaultPermissions)
     \/ \E i \in 1..Len(config.rolePermissions) :
          /\ config.rolePermissions[i].enabled
          /\ config.rolePermissions[i].roleId \in m.roles
          /\ p \in Range(config.rolePermissions[i].permissions)}

\* the enabled user bindings of the member in the policy
EnabledBindings(config, m) ==
  {i \in 1..Len(config.userPermissions) :
     /\ config.userPermissions[i].userId = m.id
     /\ config.userPermissions[i].enabled}

Resolved == last.op = "getUserEffectivePermissions"

\* C1: admin supremacy. Whatever policy is stored, hasSpecificPermission and the
\* can* wrappers return true for every capability when isAdmin classifies the
\* member as admin.
AdminSupremacy ==
  (last.op \in CheckerOps /\ last.admin) => last.result

\* an admin by admin role only, asking for a capability the policy does not give
AdminSupremacyWitness ==
  /\ last.op = "hasSpecificPermission"
  /\ last.admin
  /\ ~Elevated(last.member)
  /\ last.permission \notin effectivePermissions(last.config, last.member)
  /\ last.result

\* C2: admin-only exclusion. For a member isAdmin does not classify as admin and
\* a capability in adminOnlyPermissions of the policy the check reads,
\* hasPermission and the checks of PermissionChecker return false, also when the
\* default list or an enabled binding of the member contains the capability.
AdminOnlyExclusion ==
  (/\ last.op \in {"hasPermission"} \cup CheckerOps
   /\ ~last.admin
   /\ last.permission \in Range(last.config.adminOnlyPermissions))
    => ~last.result

\* a non-admin refused an admin-only capability that a binding lists
AdminOnlyExclusionWitness ==
  /\ last.op = "hasPermission"
  /\ ~last.admin
  /\ last.permission \in Range(last.config.adminOnlyPermissions)
  /\ last.permission \notin Range(last.config.defaultPermissions)
  /\ last.permission \in effectivePermissions(last.config, last.member)
  /\ ~last.result

\* C3: custom override replaces. With an enabled user binding of the member that
\* has isCustom = true, getUserEffectivePermissions returns exactly the
\* permissions of that binding.
CustomOverrideReplaces ==
  Resolved =>
    \A i \in EnabledBindings(last.config, last.member) :
      last.config.userPermissions[i].isCustom =>
        last.permissions = Range(last.config.userPermissions[i].permissions)

\* a custom binding that leaves out default and role permissions of the member
CustomOverrideWitness ==
  /\ Resolved
  /\ \E i \in EnabledBindings(last.config, last.member) :
       last.config.userPermissions[i].isCustom
  /\ \E i \in 1..Len(last.config.rolePermissions) :
       /\ last.config.rolePermissions[i].enabled
       /\ last.config.rolePermissions[i].roleId \in last.member.roles
       /\ Range(last.config.rolePermissions[i].permissions) \cap last.permissions = {}
  /\ Range(last.config.defaultPermissions) \cap last.permissions = {}

\* C4: inherited override is additive. With an enabled user binding of the member
\* that has isCustom = false, getUserEffectivePermissions returns the default
\* permissions, the permissions of the enabled bindings of the member's roles and
\* the permissions of the user binding, and nothing else.
InheritedOverrideAdds ==
  Resolved =>
    \A i \in EnabledBindings(last.config, last.member) :
      ~last.config.userPermissions[i].isCustom =>
        last.permissions =
          BaseOf(last.config, last.member) \cup
            Range(last.config.userPermissions[i].permissions)

\* default {view_help}, R1 {use_bot, run_analysis}, inherited binding {consult}
InheritedOverrideWitness ==
  /\ Resolved
  /\ last.member.roles = {"R1"}
  /\ last.config.defaultPermissions = <<"view_help">>
  /\ \E i \in EnabledBindings(last.config, last.member) :
       /\ ~last.config.userPermissions[i].isCustom
       /\ last.config.userPermissions[i].permissions = <<"consult">>
  /\ last.permissions = {"view_help", "use_bot", "run_analysis", "consult"}

\* C5: default-only baseline. For a member without roles and without a user
\* binding, getUserEffectivePermissions returns the default permissions of the
\* policy, whatever bindings other roles and users have.
DefaultOnlyBaseline ==
  (/\ Resolved
   /\ last.member.roles = {}
   /\ \A i \in 1..Len(last.config.userPermissions) :
        last.config.userPermissions[i].userId # last.member.id)
    => last.permissions = Range(last.config.defaultPermissions)

\* such a member in a policy with enabled bindings of a role and of another user
DefaultOnlyWitness ==
  /\ Resolved
  /\ last.member.roles = {}
  /\ \A i \in 1..Len(last.config.userPermissions) :
       last.config.userPermissions[i].userId # last.member.id
  /\ \E i \in 1..Len(last.config.userPermissions) :
       last.config.userPermissions[i].enabled
  /\ \E i \in 1..Len(last.config.rolePermissions) :
       last.config.rolePermissions[i].enabled
  /\ last.permissions = Range(last.config.defaultPermissions)

\* C6: role union monotonicity. Without an enabled custom binding of the member,
\* the permissions resolved for the member are contained in those resolved on
\* the same policy for the member with one more role.
RoleUnionMonotone ==
  (/\ Resolved
   /\ \A i \in EnabledBindings(last.config, last.member) :
        ~last.config.userPermissions[i].isCustom)
    => \A r \in Roles :
         last.permissions \subseteq
           effectivePermissions(last.config,
                                [last.member EXCEPT !.roles = @ \cup {r}])

\* a role with an enabled binding that the member lacks and that adds a permission
RoleUnionWitness ==
  /\ Resolved
  /\ \A i \in EnabledBindings(last.config, last.member) :
       ~last.config.userPermissions[i].isCustom
  /\ last.member.roles # {}
  /\ \E r \in Roles \ last.member.roles :
       /\ \E i \in 1..Len(last.config.rolePermissions) :
            /\ last.config.rolePermissions[i].enabled
            /\ last.config.rolePermissions[i].roleId = r
       /\ last.permissions #
            effectivePermissions(last.config,
                                 [last.member EXCEPT !.roles = @ \cup {r}])

\* C7: getUserEffectivePermissions for a member classified as admin returns all
\* seven permissions of getAllPermissions.
AdminResolvesAll ==
  (Resolved /\ last.admin) => last.permissions = Catalog

----------------------------------------------------------------------------
(* Properties of the administration operations *)

RoleIndexes(config, roleId) ==
  {i \in 1..Len(config.rolePermissions) : config.rolePermissions[i].roleId = roleId}

UserIndexes(config, userId) ==
  {i \in 1..Len(config.userPermissions) : config.userPermissions[i].userId = userId}

Succeeded(op) == last.op = op /\ last.ok

\* C9: upsert by key. The policies in permissions.json hold at most one role
\* binding per roleId and one user binding per userId, and a successful
\* setRolePermissions leaves one binding of the role with the given permissions,
\* a state that the same call made again does not change.
UpsertByKey ==
  /\ \A t \in DOMAIN permFile.configs :
       /\ \A r \in Roles : Cardinality(RoleIndexes(permFile.configs[t], r)) <= 1
       /\ \A u \in Users : Cardinality(UserIndexes(permFile.configs[t], u)) <= 1
  /\ Succeeded("setRolePermissions") =>
       /\ Cardinality(RoleIndexes(permFile.configs[last.serverId], last.roleId)) = 1
       /\ \A i \in RoleIndexes(permFile.configs[last.serverId], last.roleId) :
            permFile.configs[last.serverId].rolePermissions[i].permissions
              = last.permissions
       /\ setRolePermissions(permFile, last.serverId, last.roleId, last.roleName,
                             last.permissions, {}).file = permFile

\* setRolePermissions called on the state an identical call has left
UpsertByKeyWitness ==
  /\ Succeeded("setRolePermissions")
  /\ last.before = permFile
  /\ nOps = 2

\* C10: replace, not merge. After a successful setRolePermissions the binding of
\* the role has the permissions of the call and is enabled; after a successful
\* setUserPermissions the binding of the user has the permissions and isCustom
\* of the call and is enabled; after a successful setDefaultPermissions the
\* default permissions are those of the call.
ReplaceNotMerge ==
  /\ Succeeded("setRolePermissions") =>
       LET config == permFile.configs[last.serverId] IN
       /\ RoleIndexes(config, last.roleId) # {}
       /\ \A i \in RoleIndexes(config, last.roleId) :
            /\ config.rolePermissions[i].permissions = last.permissions
            /\ config.rolePermissions[i].enabled
  /\ Succeeded("setUserPermissions") =>
       LET config == permFile.configs[last.serverId] IN
       /\ UserIndexes(config, last.userId) # {}
       /\ \A i \in UserIndexes(config, last.userId) :
            /\ config.userPermissions[i].permissions = last.permissions
            /\ config.userPermissions[i].isCustom = last.isCustom
            /\ config.userPermissions[i].enabled
  /\ Succeeded("setDefaultPermissions") =>
       permFile.configs[last.serverId].defaultPermissions = last.permissions

\* a binding of the role with other permissions, switched off, was there before
ReplaceNotMergeWitness ==
  /\ Succeeded("setRolePermissions")
  /\ last.before.exists
  /\ last.serverId \in DOMAIN last.before.configs
  /\ \E i \in RoleIndexes(last.before.configs[last.serverId], last.roleId) :
       LET old == last.before.configs[last.serverId].rolePermissions[i] IN
       /\ ~old.enabled
       /\ old.permissions # last.permissions
       /\ Range(old.permissions) \cap Range(last.permissions) = {}

\* C11: hard delete. After a successful removeRolePermissions the policy of the
\* server holds no binding of the role, enabled or not, and a member resolves to
\* what the member resolves to without the role; after a successful
\* removeUserPermissions it holds no binding of the user, and the user resolves
\* to the default permissions and those of the user's roles.
HardDelete ==
  /\ Succeeded("removeRolePermissions") =>
       LET config == permFile.configs[last.serverId] IN
       /\ RoleIndexes(config, last.roleId) = {}
       /\ \A m \in Members :
            effectivePermissions(config, m) =
              effectivePermissions(config, [m EXCEPT !.roles = @ \ {last.roleId}])
  /\ Succeeded("removeUserPermissions") =>
       LET config == permFile.configs[last.serverId] IN
       /\ UserIndexes(config, last.userId) = {}
       /\ \A m \in Members :
            m.id = last.userId => effectivePermissions(config, m) = BaseOf(config, m)

\* the removed role had a binding that was switched off
HardDeleteWitness ==
  /\ Succeeded("removeRolePermissions")
  /\ last.serverId \in DOMAIN last.before.configs
  /\ \E i \in RoleIndexes(last.before.configs[last.serverId], last.roleId) :
       ~last.before.configs[last.serverId].rolePermissions[i].enabled
  /\ RoleIndexes(permFile.configs[last.serverId], last.roleId) = {}

\* C13: adminOnlyPermissions of every stored policy is manage_config and
\* manage_permissions, as createDefaultPermissionConfig sets it; no
\* administration operation changes it.
AdminOnlyFixed ==
  \A t \in DOMAIN permFile.configs :
    permFile.configs[t].adminOnlyPermissions = <<"manage_config", "manage_permissions">>

\* the default permissions replaced by a list that names manage_config
AdminOnlyFixedWitness ==
  /\ Succeeded("setDefaultPermissions")
  /\ "manage_config" \in Range(last.permissions)
  /\ permFile.configs[last.serverId].defaultPermissions = last.permissions

----------------------------------------------------------------------------
(* Properties of the /config command *)

BindingSubs == {"role-add", "user-add", "default"}

ManageNames == {"manage_config", "manage_permissions"}

\* the names of the permissions option that getAllPermissions lists
Wanted(cmd) ==
  {p \in Catalog : \E i \in 1..Len(cmd.permissions) : trim(cmd.permissions[i]) = p}

\* the permission lists permissions.json holds under the key of the subcommand
Written(cmd) ==
  LET config == ConfigOrDefault(permFile.configs, last.member.guild.id) IN
  CASE cmd.sub = "role-add" ->
         {config.rolePermissions[i].permissions : i \in RoleIndexes(config, cmd.role)}
    [] cmd.sub = "user-add" ->
         {config.userPermissions[i].permissions : i \in UserIndexes(config, cmd.user)}
    [] cmd.sub = "default" -> {config.defaultPermissions}

Bound == last.op = "config" /\ last.allowed /\ last.cmd.sub \in BindingSubs

\* C12 as stated: role-add, user-add and default, called with any list of names
\* and with the stores answering, succeed and store exactly the listed names
\* that the catalog holds.
NamesDroppedNotRejected ==
  (Bound /\ last.faults = {}) =>
    /\ last.reply = "done"
    /\ Written(last.cmd) # {}
    /\ \A l \in Written(last.cmd) : Range(l) = Wanted(last.cmd)

\* C12: role-add, user-add and default called with a list in which some name
\* belongs to the catalog store exactly the listed names of the catalog, and
\* fail only when permissions.json cannot be read or written, leaving it as it
\* was; called with a list in which no name belongs to the catalog they are
\* rejected and permissions.json is left as it was.
NamesFiltered ==
  Bound =>
    IF Wanted(last.cmd) = {}
    THEN last.reply = "invalid" /\ permFile = last.before.file
    ELSE /\ last.reply \in {"done", "failed"}
         /\ last.reply = "failed" =>
              last.faults \cap PermFaults # {} /\ permFile = last.before.file
         /\ last.reply = "done" =>
              /\ Written(last.cmd) # {}
              /\ \A l \in Written(last.cmd) : Range(l) = Wanted(last.cmd)

\* view_help,bogus given for a role: view_help stored, bogus not
NamesFilteredWitness ==
  /\ Bound
  /\ last.cmd.sub = "role-add"
  /\ last.cmd.permissions = <<"view_help", "bogus">>
  /\ last.reply = "done"
  /\ Written(last.cmd) = {<<"view_help">>}

\* C14: the list a role-add, user-add or default command has stored contains
\* neither manage_config nor manage_permissions.
NoManageGrant ==
  (Bound /\ last.reply = "done") =>
    \A l \in Written(last.cmd) : Range(l) \cap ManageNames = {}

\* aiProvider and adminRoles as a load with the stores answering returns them
Settings(rows, files, t) ==
  LET loaded == loadServerConfig(dbAvailable, rows, files, t, {}) IN
  [ok |-> loaded.ok, aiProvider |-> loaded.config.aiProvider,
   adminRoles |-> loaded.config.adminRoles]

\* C15: a /config command runs its subcommand only for a member isAdmin
\* classifies as admin; a command of any other member is refused and changes
\* neither the policy of a server nor the settings of the guild, also when a
\* binding of the member lists manage_config.
OnlyAdminsMutate ==
  last.op = "config" =>
    /\ last.allowed => last.admin
    /\ ~last.admin =>
         /\ last.reply = "denied"
         /\ \A t \in Tenants :
              ConfigOrDefault(permFile.configs, t) =
                ConfigOrDefault(last.before.file.configs, t)
         /\ Settings(dbRows, cfgFiles, last.member.guild.id) =
              Settings(last.before.rows, last.before.files, last.member.guild.id)

----------------------------------------------------------------------------
(* Properties of the stores *)

Loaded == last.op = "loadServerConfig"

\* the load before this one was of the same server, which had no record then
Reloaded(op) ==
  /\ last.op = op
  /\ last.earlier.op = op
  /\ last.earlier.serverId = last.serverId
  /\ last.earlier.fresh

\* C16: default synthesis is stable. loadServerConfig of a server without row
\* and file does not fail and returns createDefaultConfig, and a second load
\* right after it returns the same; getPermissionConfig of a server that
\* permissions.json does not hold returns createDefaultPermissionConfig, and so
\* does a second call right after it.
DefaultStable ==
  /\ (Loaded /\ last.fresh /\ "cfgRead" \notin last.faults) =>
       last.ok /\ last.config = createDefaultConfig(last.serverId)
  /\ (/\ Reloaded("loadServerConfig")
      /\ "cfgRead" \notin last.faults
      /\ "cfgRead" \notin last.earlier.faults) =>
       last.ok /\ last.earlier.ok /\ last.config = last.earlier.config
  /\ (last.op = "getPermissionConfig" /\ last.fresh) =>
       last.config = createDefaultPermissionConfig
  /\ Reloaded("getPermissionConfig") => last.config = last.earlier.config

\* C17: after a load of a server without record, with the stores answering, a
\* record of the server exists: for loadServerConfig a database row when the
\* database is available and a server file otherwise, for getPermissionConfig
\* an entry of permissions.json.
DefaultPersisted ==
  /\ (Loaded /\ last.fresh /\ last.faults = {}) =>
       IF dbAvailable THEN last.serverId \in DOMAIN dbRows
       ELSE last.serverId \in DOMAIN cfgFiles
  /\ (last.op = "getPermissionConfig" /\ last.fresh /\ last.faults = {}) =>
       last.serverId \in DOMAIN permFile.configs

\* a valid record in the server file only, with the database available
FileOnly(rows, files, t) ==
  /\ dbAvailable
  /\ t \notin DOMAIN rows
  /\ t \in DOMAIN files
  /\ validateConfig(files[t])

\* C18: migration preserves content. With the stores answering, a load of a
\* server whose valid record is in the file only returns the content of the
\* file, and the database read after it returns the same content, the
\* permissions of the record included.
MigrationPreserves ==
  (/\ Loaded
   /\ last.faults = {}
   /\ FileOnly(last.before.rows, last.before.files, last.serverId))
    => /\ last.ok
       /\ last.config = last.before.files[last.serverId]
       /\ loadConfigFromDatabase(dbRows, last.serverId, {}).found
       /\ loadConfigFromDatabase(dbRows, last.serverId, {}).config = last.config

\* C19: a load that does not get the record from the database and can read the
\* server file returns the valid record of the file, or the default when
\* there is no file, whether or not the write to the database succeeds.
MigrationFailureHidden ==
  (/\ Loaded
   /\ "cfgRead" \notin last.faults
   /\ \/ ~dbAvailable
      \/ "dbRead" \in last.faults
      \/ last.serverId \notin DOMAIN last.before.rows)
    => IF last.serverId \notin DOMAIN last.before.files
       THEN last.ok /\ last.config = createDefaultConfig(last.serverId)
       ELSE validateConfig(last.before.files[last.serverId]) =>
              last.ok /\ last.config = last.before.files[last.serverId]

\* the database row of a config as saveConfigToDatabase writes it
RowOf(config) ==
  [server_id |-> config.serverId, ai_provider |-> config.aiProvider,
   admin_roles |-> config.adminRoles]

Others(store, before, t) ==
  /\ (DOMAIN store) \ {t} = (DOMAIN before) \ {t}
  /\ \A k \in (DOMAIN store) \ {t} : store[k] = before[k]

\* C20: no dual-write. saveServerConfig with the database available leaves the
\* server files as they were, writes the row of the config when it succeeds and
\* nothing when the database refuses; without the database it leaves the rows
\* as they were and writes the file of the server.
NoDualWrite ==
  last.op = "saveServerConfig" =>
    IF dbAvailable
    THEN /\ cfgFiles = last.before.files
         /\ last.ok <=> "dbWrite" \notin last.faults
         /\ last.ok => /\ last.serverId \in DOMAIN dbRows
                       /\ dbRows[last.serverId] = RowOf(last.config)
                       /\ Others(dbRows, last.before.rows, last.serverId)
         /\ ~last.ok => dbRows = last.before.rows
    ELSE /\ dbRows = last.before.rows
         /\ last.ok <=> "cfgWrite" \notin last.faults
         /\ last.ok => /\ last.serverId \in DOMAIN cfgFiles
                       /\ cfgFiles[last.serverId] = last.config
                       /\ Others(cfgFiles, last.before.files, last.serverId)
         /\ ~last.ok => cfgFiles = last.before.files

\* a save into the database while the server file holds another content
NoDualWriteWitness ==
  /\ last.op = "saveServerConfig"
  /\ dbAvailable
  /\ last.ok
  /\ last.serverId \in DOMAIN cfgFiles
  /\ cfgFiles[last.serverId].aiProvider # last.config.aiProvider
  /\ dbRows[last.serverId].ai_provider = last.config.aiProvider

----------------------------------------------------------------------------
(* Properties of failures, frames and bindings that are switched off *)

\* the subcommands that write: the removals, ai set, and role-add, user-add and
\* default with a name of the catalog
Writes(cmd) ==
  \/ cmd.group = "ai"
  \/ cmd.sub \in {"role-remove", "user-remove"}
  \/ cmd.sub \in BindingSubs /\ Wanted(cmd) # {}

\* the store the subcommand writes to refuses the write
WriteRejected(cmd, faults) ==
  IF cmd.group = "ai"
  THEN (IF dbAvailable THEN "dbWrite" ELSE "cfgWrite") \in faults
  ELSE "permWrite" \in faults

\* C21: write failures are surfaced. When permissions.json refuses the write of
\* setRolePermissions, setUserPermissions, removeRolePermissions,
\* removeUserPermissions or setDefaultPermissions, or the database (the server
\* file, without database) refuses the write of setAIProvider, the operation
\* ends with an error, the command answers with the failure and the store is
\* left as it was.
WriteFailuresSurfaced ==
  (/\ last.op = "config"
   /\ last.allowed
   /\ Writes(last.cmd)
   /\ WriteRejected(last.cmd, last.faults))
    => /\ last.reply = "failed"
       /\ IF last.cmd.group = "ai"
          THEN dbRows = last.before.rows /\ cfgFiles = last.before.files
          ELSE permFile = last.before.file

\* role-add on a stored policy while permissions.json cannot be written
WriteFailuresSurfacedWitness ==
  /\ last.op = "config"
  /\ last.allowed
  /\ last.cmd.sub = "role-add"
  /\ Wanted(last.cmd) # {}
  /\ "permWrite" \in last.faults
  /\ last.before.file.exists
  /\ last.reply = "failed"

\* C22: authorization does not crash. Whatever read or write of the stores
\* fails, isAdmin and hasPermission return a boolean and
\* getUserEffectivePermissions returns permissions of the catalog; when
\* permissions.json cannot be read the check works on
\* createDefaultPermissionConfig: the effective permissions are view_help alone,
\* and hasPermission answers isAdmin for manage_config and manage_permissions
\* and true for view_help only among the others.
NeverCrashes ==
  /\ last.op = "isAdmin" => last.result \in BOOLEAN
  /\ last.op = "getUserEffectivePermissions" =>
       /\ last.permissions \subseteq Catalog
       /\ ~last.policyRead =>
            /\ last.config = createDefaultPermissionConfig
            /\ last.permissions = {"view_help"}
  /\ last.op = "hasPermission" =>
       /\ last.result \in BOOLEAN
       /\ ~last.policyRead =>
            /\ last.config = createDefaultPermissionConfig
            /\ last.result = (IF last.permission \in ManageNames THEN last.admin
                              ELSE last.permission = "view_help")

\* a permission the stored policy gives the member, refused while
\* permissions.json cannot be read
NeverCrashesWitness ==
  /\ last.op = "hasPermission"
  /\ ~last.policyRead
  /\ last.member.guild.id \in DOMAIN permFile.configs
  /\ last.permission \in
       effectivePermissions(permFile.configs[last.member.guild.id], last.member)
  /\ last.permission \notin ManageNames \cup {"view_help"}
  /\ ~last.result

\* the policy without the bindings that are switched off
WithoutDisabled(config) ==
  LET On(b) == b.enabled
  IN [config EXCEPT !.rolePermissions = SelectSeq(@, On),
                    !.userPermissions = SelectSeq(@, On)]

\* C25: a binding that is switched off is treated as absent.
\* getUserEffectivePermissions returns what it returns for the policy without
\* its disabled bindings, and every permission it returns is in the default
\* list, in an enabled binding of a role of the member or in an enabled
\* binding of the member.
DisabledIsAbsent ==
  Resolved =>
    /\ last.permissions = effectivePermissions(WithoutDisabled(last.config), last.member)
    /\ \A p \in last.permissions :
         \/ p \in Range(last.config.defaultPermissions)
         \/ \E i \in 1..Len(last.config.rolePermissions) :
              /\ last.config.rolePermissions[i].enabled
              /\ last.config.rolePermissions[i].roleId \in last.member.roles
              /\ p \in Range(last.config.rolePermissions[i].permissions)
         \/ \E i \in EnabledBindings(last.config, last.member) :
              p \in Range(last.config.userPermissions[i].permissions)

\* a member with a disabled binding of a role and a disabled custom binding of
\* their own, resolved to the default permissions
DisabledIsAbsentWitness ==
  /\ Resolved
  /\ \E i \in 1..Len(last.config.rolePermissions) :
       /\ ~last.config.rolePermissions[i].enabled
       /\ last.config.rolePermissions[i].roleId \in last.member.roles
       /\ ~(Range(last.config.rolePermissions[i].permissions) \subseteq last.permissions)
  /\ \E i \in 1..Len(last.config.userPermissions) :
       /\ ~last.config.userPermissions[i].enabled
       /\ last.config.userPermissions[i].userId = last.member.id
       /\ last.config.userPermissions[i].isCustom
  /\ last.permissions = Range(last.config.defaultPermissions)

AdminOps ==
  {"setRolePermissions", "setUserPermissions", "removeRolePermissions",
   "removeUserPermissions", "setDefaultPermissions"}

\* the role bindings of other roles and the user bindings of other users, in
\* the order of the list
OtherRoles(config, roleId) ==
  SelectSeq(config.rolePermissions, LAMBDA rp : rp.roleId # roleId)

OtherUsers(config, userId) ==
  SelectSeq(config.userPermissions, LAMBDA up : up.userId # userId)

\* C27: each administration operation changes only the field it names. A
\* successful setRolePermissions or removeRolePermissions leaves the default
\* list, the admin-only list, the user bindings and the bindings of the other
\* roles as they were; setUserPermissions and removeUserPermissions leave all
\* but the binding of the user; setDefaultPermissions leaves the bindings and
\* the admin-only list; the policies of the other servers stay as they were;
\* an operation that fails leaves permissions.json as it was.
OnlyNamedField ==
  last.op \in AdminOps =>
    IF ~last.ok THEN permFile = last.before
    ELSE LET old == ConfigOrDefault(last.before.configs, last.serverId)
             new == permFile.configs[last.serverId]
         IN /\ Others(permFile.configs, last.before.configs, last.serverId)
            /\ new.adminOnlyPermissions = old.adminOnlyPermissions
            /\ last.op # "setDefaultPermissions" =>
                 new.defaultPermissions = old.defaultPermissions
            /\ last.op \in {"setRolePermissions", "removeRolePermissions"} =>
                 /\ new.userPermissions = old.userPermissions
                 /\ OtherRoles(new, last.roleId) = OtherRoles(old, last.roleId)
            /\ last.op \in {"setUserPermissions", "removeUserPermissions"} =>
                 /\ new.rolePermissions = old.rolePermissions
                 /\ OtherUsers(new, last.userId) = OtherUsers(old, last.userId)
            /\ last.op = "setDefaultPermissions" =>
                 /\ new.rolePermissions = old.rolePermissions
                 /\ new.userPermissions = old.userPermissions

\* a user removed from a policy that binds another user and a role, next to the
\* policy of another server
OnlyNamedFieldWitness ==
  /\ Succeeded("removeUserPermissions")
  /\ last.serverId \in DOMAIN last.before.configs
  /\ OtherUsers(last.before.configs[last.serverId], last.userId) # <<>>
  /\ last.before.configs[last.serverId].rolePermissions # <<>>
  /\ DOMAIN permFile.configs # {last.serverId}

\* the roles and users a policy binds with a binding that is switched off
DisabledRoles(config) ==
  {config.rolePermissions[i].roleId :
     i \in {j \in 1..Len(config.rolePermissions) : ~config.rolePermissions[j].enabled}}

DisabledUsers(config) ==
  {config.userPermissions[i].userId :
     i \in {j \in 1..Len(config.userPermissions) : ~config.userPermissions[j].enabled}}

EnabledRoles(config) ==
  {config.rolePermissions[i].roleId :
     i \in {j \in 1..Len(config.rolePermissions) : config.rolePermissions[j].enabled}}

EnabledUsers(config) ==
  {config.userPermissions[i].userId :
     i \in {j \in 1..Len(config.userPermissions) : config.userPermissions[j].enabled}}

\* C28 as stated: a role or user whose binding is switched off before an
\* administration operation has no enabled binding after it.
NeverReenabled ==
  last.op \in AdminOps =>
    \A t \in (DOMAIN last.before.configs) \cap (DOMAIN permFile.configs) :
      /\ DisabledRoles(last.before.configs[t]) \cap EnabledRoles(permFile.configs[t]) = {}
      /\ DisabledUsers(last.before.configs[t]) \cap EnabledUsers(permFile.configs[t]) = {}

\* C28: a role or user whose binding is switched off before an administration
\* operation has an enabled binding after it only when the operation is a
\* successful setRolePermissions of that role, or setUserPermissions of that
\* user, on that server; every other operation leaves the binding switched off
\* or removes it.
ReenabledOnlyByBind ==
  last.op \in AdminOps =>
    \A t \in (DOMAIN last.before.configs) \cap (DOMAIN permFile.configs) :
      /\ \A r \in DisabledRoles(last.before.configs[t]) \cap EnabledRoles(permFile.configs[t]) :
           Succeeded("setRolePermissions") /\ last.serverId = t /\ last.roleId = r
      /\ \A u \in DisabledUsers(last.before.configs[t]) \cap EnabledUsers(permFile.configs[t]) :
           Succeeded("setUserPermissions") /\ last.serverId = t /\ last.userId = u

\* a role bound next to a role and a user whose bindings stay switched off
ReenabledOnlyByBindWitness ==
  /\ Succeeded("setRolePermissions")
  /\ last.serverId \in DOMAIN last.before.configs
  /\ DisabledRoles(last.before.configs[last.serverId]) # {}
  /\ last.roleId \notin DisabledRoles(last.before.configs[last.serverId])
  /\ DisabledRoles(permFile.configs[last.serverId]) =
       DisabledRoles(last.before.configs[last.serverId])
  /\ DisabledUsers(permFile.configs[last.serverId]) # {}

----------------------------------------------------------------------------
(* Properties of the fallback record *)

\* the load gets no record from the database and reads the server file
ReadsFile ==
  /\ Loaded
  /\ "cfgRead" \notin last.faults
  /\ last.serverId \in DOMAIN last.before.files
  /\ \/ ~dbAvailable
     \/ "dbRead" \in last.faults
     \/ last.serverId \notin DOMAIN last.before.rows

\* a record with serverId, an array of analyzed channels, a known provider and
\* settings
WellFormed(config) ==
  /\ config.serverId # ""
  /\ config.analyzedChannelsIsArray
  /\ config.aiProvider \in {"chatgpt", "gemini", "claude"}
  /\ config.settingsIsObject

\* C26 as stated: a load that reads a malformed server file returns the record
\* of the file.
MalformedServed ==
  (ReadsFile /\ ~WellFormed(last.before.files[last.serverId])) =>
    last.ok /\ last.config = last.before.files[last.serverId]

\* C26: a load that reads a malformed server file fails with the error of
\* validateConfig and writes nothing to the database.
MalformedRejected ==
  (ReadsFile /\ ~WellFormed(last.before.files[last.serverId])) =>
    ~last.ok /\ dbRows = last.before.rows

\* a server file with an unknown provider, read with the database available
\* and answering
MalformedRejectedWitness ==
  /\ ReadsFile
  /\ dbAvailable
  /\ last.faults = {}
  /\ last.before.files[last.serverId].aiProvider = "bard"
  /\ ~last.ok
  /\ last.serverId \notin DOMAIN dbRows

\* C29: once the database holds the row of a server, no load changes it: a
\* load of the server leaves the rows as they were, also when the read of the
\* row fails and the server file holds an older record.
PrimaryAuthoritative ==
  (/\ Loaded
   /\ dbAvailable
   /\ last.serverId \in DOMAIN last.before.rows)
    => dbRows = last.before.rows

----------------------------------------------------------------------------
(* Properties of overlapping calls *)

\* the call whose write was the last step
Saver == inFlight[last.call]

SetRole(call) == call.op.op = "setRolePermissions"

\* the policy of the server of the call holds the binding the call was made with
BindingStored(call) ==
  /\ call.op.serverId \in DOMAIN permFile.configs
  /\ \E k \in RoleIndexes(permFile.configs[call.op.serverId], call.op.roleId) :
       LET rp == permFile.configs[call.op.serverId].rolePermissions[k] IN
       rp.permissions = call.op.permissions /\ rp.enabled

\* call j wrote another role of the same server between the read and the write
\* of the call, a role the call did not read a binding of
Overtaken(call, j) ==
  /\ j \in call.missed
  /\ SetRole(inFlight[j])
  /\ inFlight[j].op.serverId = call.op.serverId
  /\ inFlight[j].op.roleId # call.op.roleId
  /\ RoleIndexes(ConfigOrDefault(call.loaded, call.op.serverId),
                 inFlight[j].op.roleId) = {}

\* C23: load-mutate-save is not atomic. When a setRolePermissions writes, the
\* file holds the binding of the call and the map the call has read; the
\* binding that another setRolePermissions of the same server wrote for another
\* role after that read is gone from the policy, although that call has
\* reported success.
LaterWriteWins ==
  (last.op = "save" /\ last.ok /\ SetRole(Saver)) =>
    /\ BindingStored(Saver)
    /\ \A j \in 1..Len(inFlight) :
         Overtaken(Saver, j) =>
           /\ inFlight[j].pc = "returned" /\ inFlight[j].ok
           /\ RoleIndexes(permFile.configs[Saver.op.serverId], inFlight[j].op.roleId) = {}

\* two calls for two roles of a server, both successful, the binding of the
\* first one lost
LaterWriteWinsWitness ==
  /\ last.op = "save"
  /\ last.ok
  /\ SetRole(Saver)
  /\ \E j \in 1..Len(inFlight) :
       /\ Overtaken(Saver, j)
       /\ inFlight[j].ok
       /\ ~BindingStored(inFlight[j])
  /\ \A j \in 1..Len(inFlight) : inFlight[j].pc = "returned"

\* C24: tenants are isolated. When overlapping setRolePermissions calls have all
\* returned with success, the policy of a server that only one of the calls
\* was made for holds the binding of that call.
TenantsIsolated ==
  (\A j \in 1..Len(inFlight) :
     SetRole(inFlight[j]) /\ inFlight[j].pc = "returned" /\ inFlight[j].ok)
    => \A i \in 1..Len(inFlight) :
         (\A j \in 1..Len(inFlight) :
            inFlight[j].op.serverId = inFlight[i].op.serverId => j = i)
           => BindingStored(inFlight[i])

\* C30: the write of a getPermissionConfig, which stores the default policy of
\* its server, leaves the policy of every other server as it was.
ReadsIsolated ==
  (last.op = "save" /\ last.ok /\ ~SetRole(Saver)) =>
    Others(permFile.configs, last.before.configs, Saver.op.serverId)

====
